---------------------------- MODULE Spec2Model ----------------------------
(***************************************************************************)
(* Model of the marketing-dashboard data pipeline:                         *)
(*   api/get-live-data  (second half of src/api/ask-gemini.js)             *)
(*   utils/dataCalculations.ts (client-side derivation)                    *)
(*                                                                         *)
(* Time.  A JavaScript Date is an instant; the model counts instants in    *)
(* whole hours since an epoch that is 00:00 UTC of a 1 January.  A         *)
(* CalendarDay "YYYY-MM-DD" is represented by its day number (days since   *)
(* the epoch): the ISO rendering is an order-preserving bijection of the   *)
(* day number, so only the instant <-> day conversions are modelled.       *)
(* Date.prototype.getDate/setDate work on LOCAL time fields, toISOString   *)
(* and the 'T00:00:00Z' parse work on UTC; the process time zone is an     *)
(* input of the model.                                                     *)
(***************************************************************************)
EXTENDS Integers, Sequences, FiniteSets, TLC

\* ------------------------------------------------------------------ bounds
\* longest range (in days, minus one) enumerated by the getDateArray harness
MaxSpan == 4

\* most rows in one upstream reporting response
MaxRows == 2

\* largest small counter value fed to the metric derivation harness
MaxCount == 2

\* hours in a day: toISOString().split('T')[0] cuts an instant down to its UTC day
HoursPerDay == 24

\* ------------------------------------------------------------- time zones
\* A zone: standard offset (hours east of UTC) and the daylight-saving window
\* [dstStart, dstEnd) given in UTC hours since 1 January (365-day years).
\* dstStart = dstEnd means the zone has no daylight saving.
HoursPerYear == 365 * HoursPerDay

UtcZone == [name |-> "UTC", std |-> 0, dstStart |-> 0, dstEnd |-> 0]

Zones ==
  { UtcZone,
    [name |-> "Brisbane", std |-> 10, dstStart |-> 0, dstEnd |-> 0],
    [name |-> "London",   std |-> 0,  dstStart |-> 89 * 24 + 1, dstEnd |-> 299 * 24 + 1],
    [name |-> "NewYork",  std |-> -5, dstStart |-> 68 * 24 + 7, dstEnd |-> 306 * 24 + 6] }

\* LocalTZA(t, true): the offset in force at the UTC instant t
LocalOffset(z, t) ==
  IF z.dstStart <= (t % HoursPerYear) /\ (t % HoursPerYear) < z.dstEnd
  THEN z.std + 1 ELSE z.std

\* LocalTime(t): the local wall clock reading, as hours since the epoch
LocalTime(z, t) == t + LocalOffset(z, t)

\* UTC(tl) = tl - LocalTZA(tl, false): a wall clock reading that occurs twice
\* (clocks set back) or never (clocks set forward) is read with the offset in
\* force before the transition.
ToUTC(z, tl) ==
  IF LocalOffset(z, tl - (z.std + 1)) = z.std + 1 THEN tl - (z.std + 1)
  ELSE tl - z.std

\* d.setDate(d.getDate() + k): k days later on the local wall clock
SetDatePlus(z, t, k) == ToUTC(z, LocalTime(z, t) + k * HoursPerDay)

\* formatDate(date): date.toISOString().split('T')[0]  -- the UTC day of t
formatDate(t) == t \div HoursPerDay

\* new Date(str + 'T00:00:00Z'), also new Date(str) for a date-only string
ParseDay(d) == d * HoursPerDay

\* -------------------------------------------------------------- getDateArray
\* The while loop of getDateArray.  The loop state is (currentDate, dates);
\* DateBody is one pass of the loop body.  DateRun and DateLoop only nest the
\* iteration (8 passes, 8 times 8 passes, ...) so that a year-long range is
\* evaluated at a small depth; together they run the body exactly while
\* currentDate <= stopDate.
DateBody(z, st) ==
  [currentDate |-> SetDatePlus(z, st.currentDate, 1),
   dates |-> Append(st.dates, formatDate(st.currentDate))]

RECURSIVE DateRun(_, _, _, _, _)
DateRun(z, st, stopDate, level, fuel) ==
  IF fuel > 0 /\ st.currentDate <= stopDate
  THEN DateRun(z,
               IF level = 0 THEN DateBody(z, st)
               ELSE DateRun(z, st, stopDate, level - 1, 8),
               stopDate, level, fuel - 1)
  ELSE st

RECURSIVE DateLoop(_, _, _)
DateLoop(z, st, stopDate) ==
  IF st.currentDate <= stopDate
  THEN DateLoop(z, DateRun(z, st, stopDate, 2, 8), stopDate)
  ELSE st.dates

\* (variant: a do-while loop, the body runs once before the first test)
getDateArrayDoWhile(z, startDateStr, endDateStr) ==
  DateLoop(z, DateBody(z, [currentDate |-> ParseDay(startDateStr), dates |-> << >>]),
           ParseDay(endDateStr))

getDateArray(z, startDateStr, endDateStr) ==
  DateLoop(z, [currentDate |-> ParseDay(startDateStr), dates |-> << >>],
           ParseDay(endDateStr))

\* ------------------------------------------------------------------ numbers
\* A JavaScript value in a numeric position: a finite non-negative rational n/d
\* in lowest terms, NaN, +Infinity, or null (what JSON.stringify makes of NaN
\* and Infinity).
RECURSIVE GCD(_, _)
GCD(a, b) == IF b = 0 THEN a ELSE GCD(b, a % b)

Num(n, d) == [k |-> "num", n |-> n \div GCD(n, d), d |-> d \div GCD(n, d)]
Int2V(n) == [k |-> "num", n |-> n, d |-> 1]
Zero == Int2V(0)
NaN  == [k |-> "nan", n |-> 0, d |-> 1]
Inf  == [k |-> "inf", n |-> 0, d |-> 1]
Null == [k |-> "null", n |-> 0, d |-> 1]

\* ToNumber: null is 0 in arithmetic
ToNumber(v) == IF v.k = "null" THEN Zero ELSE v

\* isNaN(v): ToNumber(v) is NaN
isNaN(v) == ToNumber(v).k = "nan"

\* v === 0 (strict equality: null is not 0)
StrictZero(v) == v.k = "num" /\ v.n = 0

\* a / b in IEEE arithmetic, on non-negative operands
JsDiv(a0, b0) ==
  LET a == ToNumber(a0)
      b == ToNumber(b0)
  IN  IF a.k = "nan" \/ b.k = "nan" THEN NaN
      ELSE IF a.k = "inf" THEN (IF b.k = "inf" THEN NaN ELSE Inf)
      ELSE IF b.k = "inf" THEN Zero
      ELSE IF b.n = 0 THEN (IF a.n = 0 THEN NaN ELSE Inf)
      ELSE Num(a.n * b.d, a.d * b.n)

\* a * m for a positive integer multiplier m
JsMul(a0, m) ==
  LET a == ToNumber(a0)
  IN  IF a.k = "num" THEN Num(a.n * m, a.d) ELSE a

\* JSON.parse(JSON.stringify(v)) of a number: NaN and Infinity become null
JsonRoundTrip(v) == IF v.k \in {"nan", "inf"} THEN Null ELSE v

\* ----------------------------------------------------- server-side derivation
\* (variant: the guard without the zero-denominator test)
calculateMetricNoZeroTest(numerator, denominator, multiplier) ==
  IF isNaN(numerator) \/ isNaN(denominator)
  THEN Zero
  ELSE JsMul(JsDiv(numerator, denominator), multiplier)

\* api/get-live-data calculateMetric
calculateMetric(numerator, denominator, multiplier) ==
  IF StrictZero(denominator) \/ isNaN(numerator) \/ isNaN(denominator)
  THEN Zero
  ELSE JsMul(JsDiv(numerator, denominator), multiplier)

\* (variant: the TikTok conversion rate divided by the Facebook clicks)
calculateAllDerivedMetricsCrossed(baseEntry) ==
  [fbCtr |-> calculateMetric(baseEntry.fbClicks, baseEntry.fbImpr, 100),
   fbCpm |-> calculateMetric(baseEntry.fbCost, baseEntry.fbImpr, 1000),
   fbCpc |-> calculateMetric(baseEntry.fbCost, baseEntry.fbClicks, 1),
   fbCpa |-> calculateMetric(baseEntry.fbCost, baseEntry.fbConv, 1),
   fbCvr |-> calculateMetric(baseEntry.fbConv, baseEntry.fbClicks, 100),
   ttCtr |-> calculateMetric(baseEntry.ttClicks, baseEntry.ttImpr, 100),
   ttCpm |-> calculateMetric(baseEntry.ttCost, baseEntry.ttImpr, 1000),
   ttCpc |-> calculateMetric(baseEntry.ttCost, baseEntry.ttClicks, 1),
   ttCpa |-> calculateMetric(baseEntry.ttCost, baseEntry.ttConv, 1),
   ttCvr |-> calculateMetric(baseEntry.ttConv, baseEntry.fbClicks, 100)]

calculateAllDerivedMetrics(baseEntry) ==
  [fbCtr |-> calculateMetric(baseEntry.fbClicks, baseEntry.fbImpr, 100),
   fbCpm |-> calculateMetric(baseEntry.fbCost, baseEntry.fbImpr, 1000),
   fbCpc |-> calculateMetric(baseEntry.fbCost, baseEntry.fbClicks, 1),
   fbCpa |-> calculateMetric(baseEntry.fbCost, baseEntry.fbConv, 1),
   fbCvr |-> calculateMetric(baseEntry.fbConv, baseEntry.fbClicks, 100),
   ttCtr |-> calculateMetric(baseEntry.ttClicks, baseEntry.ttImpr, 100),
   ttCpm |-> calculateMetric(baseEntry.ttCost, baseEntry.ttImpr, 1000),
   ttCpc |-> calculateMetric(baseEntry.ttCost, baseEntry.ttClicks, 1),
   ttCpa |-> calculateMetric(baseEntry.ttCost, baseEntry.ttConv, 1),
   ttCvr |-> calculateMetric(baseEntry.ttConv, baseEntry.ttClicks, 100)]

\* ----------------------------------------------------- client-side derivation
\* utils/dataCalculations.ts calculateMetric
clientCalculateMetric(numerator, denominator, multiplier) ==
  IF StrictZero(denominator) THEN Zero
  ELSE JsMul(JsDiv(numerator, denominator), multiplier)

calculateAllMetrics(entry) ==
  [fbCtr |-> clientCalculateMetric(entry.fbClicks, entry.fbImpr, 100),
   fbCpm |-> clientCalculateMetric(entry.fbCost, entry.fbImpr, 1000),
   fbCpc |-> clientCalculateMetric(entry.fbCost, entry.fbClicks, 1),
   fbCpa |-> clientCalculateMetric(entry.fbCost, entry.fbConv, 1),
   fbCvr |-> clientCalculateMetric(entry.fbConv, entry.fbClicks, 100),
   ttCtr |-> clientCalculateMetric(entry.ttClicks, entry.ttImpr, 100),
   ttCpm |-> clientCalculateMetric(entry.ttCost, entry.ttImpr, 1000),
   ttCpc |-> clientCalculateMetric(entry.ttCost, entry.ttClicks, 1),
   ttCpa |-> clientCalculateMetric(entry.ttCost, entry.ttConv, 1),
   ttCvr |-> clientCalculateMetric(entry.ttConv, entry.ttClicks, 100)]

\* { ...a, ...b }: the fields of b override those of a
Spread(a, b) ==
  [f \in DOMAIN a \cup DOMAIN b |-> IF f \in DOMAIN b THEN b[f] ELSE a[f]]

processApiData(rawData) ==
  [i \in 1..Len(rawData) |-> Spread(rawData[i], calculateAllMetrics(rawData[i]))]

\* ------------------------------------------------------------ upstream rows
\* A field of an upstream row as it arrives in the JSON body: absent, a string
\* that does not start with a number, or a number / numeric string n/d.
Missing == [k |-> "missing", n |-> 0, d |-> 1]
Text    == [k |-> "text", n |-> 0, d |-> 1]
\* Meta only: the row has no actions entry of type 'SurveyCompleted'
NoAction == [k |-> "noaction", n |-> 0, d |-> 1]

\* x || 0
OrZero(raw) == IF raw.k = "missing" \/ (raw.k = "num" /\ raw.n = 0) THEN Zero ELSE raw

\* parseFloat(x)
ParseFloat(raw) == IF raw.k = "num" THEN Num(raw.n, raw.d) ELSE NaN

\* parseInt(x, 10)
ParseInt(raw) == IF raw.k = "num" THEN Int2V(raw.n \div raw.d) ELSE NaN

\* The body of the forEach callback of fetchFacebookData
FbRow(entry) ==
  [fbCost   |-> ParseFloat(OrZero(entry.spend)),
   fbClicks |-> ParseInt(OrZero(entry.clicks)),
   fbImpr   |-> ParseInt(OrZero(entry.impressions)),
   fbConv   |-> IF entry.conv.k = "noaction" THEN Zero ELSE ParseInt(entry.conv)]

\* The body of the forEach callback of fetchTikTokData
TtRow(entry) ==
  [ttCost   |-> ParseFloat(OrZero(entry.spend)),
   ttClicks |-> ParseInt(OrZero(entry.clicks)),
   ttImpr   |-> ParseInt(OrZero(entry.impressions)),
   ttConv   |-> ParseInt(OrZero(entry.conv))]

\* processedData after the forEach: one entry per row date, a later row
\* overwriting an earlier one with the same date.
LastRow(rows, day) ==
  rows[CHOOSE i \in DOMAIN rows :
         /\ rows[i].date = day
         /\ \A j \in DOMAIN rows : rows[j].date = day => j <= i]

FbProcessed(rows) ==
  [day \in {rows[i].date : i \in DOMAIN rows} |-> FbRow(LastRow(rows, day))]

TtProcessed(rows) ==
  [day \in {rows[i].date : i \in DOMAIN rows} |-> TtRow(LastRow(rows, day))]

\* ---------------------------------------------------------------- promises
Pending == [status |-> "pending", value |-> << >>, reason |-> "none"]
Fulfilled(v) == [status |-> "fulfilled", value |-> v, reason |-> "none"]
Rejected(why) == [status |-> "rejected", value |-> << >>, reason |-> why]

\* ----------------------------------------------------------- source adapters
\* (variant: the guard looks at the access token only)
FbConfiguredTokenOnly(accessToken, adAccountId) == accessToken

\* The guard at the head of each adapter: both of its credentials are set
FbConfigured(accessToken, adAccountId) == accessToken /\ adAccountId

TtConfigured(accessToken, advertiserId) == accessToken /\ advertiserId

\* (variant: the request asks for the first day of the range only)
FbRequestOneDay(startDate, endDate) == [since |-> startDate, until |-> startDate]

\* The range a reporting request asks for: time_range since/until in the URL
\* of the Meta request, start_date/end_date in the body of the TikTok request
\* (which asks for page 1 with room for 366 rows)
FbRequest(startDate, endDate) == [since |-> startDate, until |-> endDate]

TtRequest(startDate, endDate) == [since |-> startDate, until |-> endDate]

\* What the upstream did with the one reporting request:
\*   network_error       fetch() itself rejects
\*   http_error          non-2xx status, JSON body carrying an error message
\*   http_error_badbody  non-2xx status, body is not JSON
\*   bad_body            2xx status, body is not JSON
\*   error_payload       2xx status, JSON error payload (Meta: {error: ...} and
\*                       no data; TikTok: code !== 0)
\*   ok                  2xx status, JSON body with the rows
fetchFacebookData(resp, accessToken, adAccountId) ==
  IF ~FbConfigured(accessToken, adAccountId) THEN Fulfilled(<< >>)
  ELSE CASE resp.kind = "network_error" -> Rejected("network")
         [] resp.kind = "http_error" -> Rejected("Facebook API request failed: upstream message")
         [] resp.kind = "http_error_badbody" -> Rejected("syntax")
         [] resp.kind = "bad_body" -> Rejected("syntax")
         [] resp.kind = "error_payload" -> Fulfilled(<< >>)
         [] OTHER -> Fulfilled(FbProcessed(resp.rows))

fetchTikTokData(resp, accessToken, advertiserId) ==
  IF ~TtConfigured(accessToken, advertiserId) THEN Fulfilled(<< >>)
  ELSE CASE resp.kind = "network_error" -> Rejected("network")
         [] resp.kind = "http_error" -> Rejected("TikTok API request failed: upstream message")
         [] resp.kind = "http_error_badbody" -> Rejected("syntax")
         [] resp.kind = "bad_body" -> Rejected("syntax")
         [] resp.kind = "error_payload" -> Rejected("TikTok API error: upstream message")
         [] OTHER -> Fulfilled(TtProcessed(resp.rows))

\* ------------------------------------------------------ get-live-data: merge
defaultFbEntry == [fbClicks |-> Zero, fbImpr |-> Zero, fbCost |-> Zero, fbConv |-> Zero]
defaultTtEntry == [ttClicks |-> Zero, ttImpr |-> Zero, ttCost |-> Zero, ttConv |-> Zero]

\* data[dateStr] || defaultEntry
Lookup(data, dateStr, default) ==
  IF dateStr \in DOMAIN data THEN data[dateStr] ELSE default

\* (variant: an inner join, a platform's entry is used only on the days for
\* which the other platform has one too)
MergeDayInner(fbData, ttData, dateStr) ==
  LET both == dateStr \in DOMAIN fbData /\ dateStr \in DOMAIN ttData
      fbEntry == IF both THEN fbData[dateStr] ELSE defaultFbEntry
      ttEntry == IF both THEN ttData[dateStr] ELSE defaultTtEntry
      baseMetricsEntry ==
        [date     |-> dateStr,
         fbClicks |-> fbEntry.fbClicks,
         fbImpr   |-> fbEntry.fbImpr,
         fbCost   |-> fbEntry.fbCost,
         fbConv   |-> fbEntry.fbConv,
         ttClicks |-> ttEntry.ttClicks,
         ttImpr   |-> ttEntry.ttImpr,
         ttCost   |-> ttEntry.ttCost,
         ttConv   |-> ttEntry.ttConv]
  IN  Spread(baseMetricsEntry, calculateAllDerivedMetrics(baseMetricsEntry))

\* The callback of allDatesInRange.map
MergeDay(fbData, ttData, dateStr) ==
  LET fbEntry == Lookup(fbData, dateStr, defaultFbEntry)
      ttEntry == Lookup(ttData, dateStr, defaultTtEntry)
      baseMetricsEntry ==
        [date     |-> dateStr,
         fbClicks |-> fbEntry.fbClicks,
         fbImpr   |-> fbEntry.fbImpr,
         fbCost   |-> fbEntry.fbCost,
         fbConv   |-> fbEntry.fbConv,
         ttClicks |-> ttEntry.ttClicks,
         ttImpr   |-> ttEntry.ttImpr,
         ttCost   |-> ttEntry.ttCost,
         ttConv   |-> ttEntry.ttConv]
  IN  Spread(baseMetricsEntry, calculateAllDerivedMetrics(baseMetricsEntry))

\* ------------------------------------------------------- get-live-data: sort
\* finalData.sort((a, b) => new Date(b.date).getTime() - new Date(a.date).getTime())
\* Array.prototype.sort is stable; the result is the stable arrangement by
\* descending instant, computed here by insertion.
SortsBefore(a, b) == ParseDay(b.date) - ParseDay(a.date) < 0

RECURSIVE InsertAt(_, _, _)
InsertAt(out, x, i) ==
  IF i > Len(out) \/ SortsBefore(x, out[i]) THEN i ELSE InsertAt(out, x, i + 1)

Insert(out, x) ==
  LET p == InsertAt(out, x, 1)
  IN  SubSeq(out, 1, p - 1) \o <<x>> \o SubSeq(out, p, Len(out))

\* Insertion of in[1], in[2], ... in turn; the loop state is (i, out), and
\* SortRun nests the iteration like DateRun does.
SortBody(in, st) == [i |-> st.i + 1, out |-> Insert(st.out, in[st.i])]

RECURSIVE SortRun(_, _, _, _)
SortRun(in, st, level, fuel) ==
  IF fuel > 0 /\ st.i <= Len(in)
  THEN SortRun(in,
               IF level = 0 THEN SortBody(in, st)
               ELSE SortRun(in, st, level - 1, 8),
               level, fuel - 1)
  ELSE st

RECURSIVE SortLoop(_, _)
SortLoop(in, st) ==
  IF st.i <= Len(in) THEN SortLoop(in, SortRun(in, st, 2, 8)) ELSE st.out

SortByDateDesc(finalData) == SortLoop(finalData, [i |-> 1, out |-> << >>])

\* JSON.stringify(finalData) as the caller parses it back
SerializeRecord(rec) ==
  [f \in DOMAIN rec |-> IF f = "date" THEN rec[f] ELSE JsonRoundTrip(rec[f])]

Serialize(table) == [i \in 1..Len(table) |-> SerializeRecord(table[i])]

\* ----------------------------------------------------- get-live-data: request
\* The daysToFetch computation: 90 unless parseInt(days, 10) is 90 or 365
DaysToFetch(days) ==
  IF days.k = "absent" THEN 90
  ELSE LET daysParam == ParseInt(days)
       IN  IF ~isNaN(daysParam) /\ (daysParam = Int2V(90) \/ daysParam = Int2V(365))
           THEN daysParam.n ELSE 90

\* (variant: a fail-fast join in the manner of Promise.all, which is done as
\* soon as one promise rejects)
FailFastJoin(fb, tt) ==
  \/ fb.status = "fulfilled" /\ tt.status = "fulfilled"
  \/ fb.status = "rejected"
  \/ tt.status = "rejected"

\* Promise.allSettled: resolves once neither promise is pending
AllSettled(fb, tt) == fb.status # "pending" /\ tt.status # "pending"

\* (variant: the results are taken in the order of arrival, and only the
\* promise that settled first is read)
FirstSettledOnly(fb, tt, first) ==
  IF first = "tt" THEN <<Rejected("late"), tt>> ELSE <<fb, Rejected("late")>>

\* The array Promise.allSettled resolves to: one result per promise passed,
\* in the order the promises were passed, whichever settled first
JoinResults(fb, tt, first) == <<fb, tt>>

\* The table built after the join
BuildTable(z, startDateFormatted, endDateFormatted, fbResult, ttResult) ==
  LET fbData == IF fbResult.status = "fulfilled" THEN fbResult.value ELSE << >>
      ttData == IF ttResult.status = "fulfilled" THEN ttResult.value ELSE << >>
      allDatesInRange == getDateArray(z, startDateFormatted, endDateFormatted)
      finalData == [i \in 1..Len(allDatesInRange) |->
                      MergeDay(fbData, ttData, allDatesInRange[i])]
  IN  SortByDateDesc(finalData)

\* (variant: a rejected adapter promise reaches the catch block)
HandlerResultFailFast(z, startDateFormatted, endDateFormatted, fbResult, ttResult) ==
  IF fbResult.status = "rejected" \/ ttResult.status = "rejected"
  THEN [statusCode |-> 500, body |-> << >>]
  ELSE [statusCode |-> 200,
        body |-> Serialize(BuildTable(z, startDateFormatted, endDateFormatted,
                                      fbResult, ttResult))]

\* What the try block returns after the join: the serialised table, status 200
HandlerResult(z, startDateFormatted, endDateFormatted, fbResult, ttResult) ==
  [statusCode |-> 200,
   body |-> Serialize(BuildTable(z, startDateFormatted, endDateFormatted,
                                 fbResult, ttResult))]

\* (variant: the check passes as long as one credential is set)
CredentialsMissingAll(e) ==
  ~e.metaToken /\ ~e.metaAccount /\ ~e.ttToken /\ ~e.ttAdvertiser

\* The configuration check of the handler: any of the four credentials unset
CredentialsMissing(e) ==
  ~e.metaToken \/ ~e.metaAccount \/ ~e.ttToken \/ ~e.ttAdvertiser

\* ------------------------------------------------------------------- inputs
\* Instants at which a request arrives (hours since the epoch, third year):
\* 15 February 12:00 UTC and 14 June 23:00 UTC.
Nows == { (2 * 365 + 45) * HoursPerDay + 12, (2 * 365 + 164) * HoursPerDay + 23 }

\* The `days` query parameter: absent, or a string: "abc", "90", "365", "7"
\* and "365.9" (parseInt makes NaN, 90, 365, 7 and 365 of them).
Absent == [k |-> "absent", n |-> 0, d |-> 1]
DaysParams == { Absent, Text, [k |-> "num", n |-> 90, d |-> 1],
                [k |-> "num", n |-> 365, d |-> 1], [k |-> "num", n |-> 7, d |-> 1],
                [k |-> "num", n |-> 3659, d |-> 10] }

\* process.env: which of the four credentials are set
AllCredentials ==
  [metaToken |-> TRUE, metaAccount |-> TRUE, ttToken |-> TRUE, ttAdvertiser |-> TRUE]

EnvChoices ==
  { AllCredentials,
    [metaToken |-> FALSE, metaAccount |-> TRUE, ttToken |-> TRUE, ttAdvertiser |-> TRUE],
    [metaToken |-> TRUE,  metaAccount |-> TRUE, ttToken |-> TRUE, ttAdvertiser |-> FALSE] }

\* Rows the Meta upstream may return for the range start..end
FbRowChoices(start, end) ==
  { [date |-> end, spend |-> Int2V(25), clicks |-> Int2V(50),
     impressions |-> Int2V(1000), conv |-> Int2V(5)],
    [date |-> start, spend |-> Text, clicks |-> Int2V(7),
     impressions |-> Missing, conv |-> Text] }

\* Rows the TikTok upstream may return for the range start..end
TtRowChoices(start, end) ==
  { [date |-> end, spend |-> [k |-> "num", n |-> 21, d |-> 2], clicks |-> Int2V(4),
     impressions |-> Int2V(0), conv |-> Int2V(2)],
    [date |-> end + 1, spend |-> Int2V(25), clicks |-> Int2V(50),
     impressions |-> Int2V(1000), conv |-> Int2V(5)] }

RowSeqs(choices) == UNION { [1..n -> choices] : n \in 0..MaxRows }

FailureKinds == {"network_error", "http_error", "http_error_badbody", "bad_body",
                 "error_payload"}

Responses(choices) ==
  { [kind |-> k, rows |-> << >>] : k \in FailureKinds }
    \cup { [kind |-> "ok", rows |-> rows] : rows \in RowSeqs(choices) }

\* -------------------------------------------------------------------- state
VARIABLES
  tz,      \* the time zone of the server process
  env,     \* the credentials in process.env
  runs,    \* the get-live-data handler invocations
  client,  \* App.loadDataForTable: the table the dashboard holds
  ga,      \* harness applying getDateArray to a pair of days
  dm,      \* harness applying the two metric derivations to one base entry
  load,    \* what the callers and the upstreams offer: request instants,
           \* `days` values, response kinds, rows per response
  ad,      \* harness calling one source adapter directly
  chat,    \* the ChatAssistant component: messages, input, requests in flight
  ask      \* the ask-gemini handler: the invocation in progress

vars == <<tz, env, runs, client, ga, dm, load, ad, chat, ask>>

Runs == {1, 2}

NoResponse == [statusCode |-> 0, body |-> << >>]

\* One invocation; `upstream` counts the upstream requests it issued and
\* `first` records which adapter promise settled first.
IdleRun ==
  [pc |-> "idle", method |-> "none", days |-> Absent, now |-> 0, daysToFetch |-> 0,
   start |-> 0, end |-> 0, fb |-> Pending, tt |-> Pending, upstream |-> 0,
   first |-> "none", response |-> NoResponse]

OffRun == [IdleRun EXCEPT !.pc = "off"]

IdleClient == [pc |-> "idle", tableData |-> << >>, error |-> FALSE]

IdleGa == [pc |-> "off", start |-> 0, end |-> 0, out |-> << >>]

IdleDm == [pc |-> "off", base |-> << >>, server |-> << >>, wire |-> << >>,
           client |-> << >>]

\* `sent` lists the ranges of the upstream requests the call has issued
IdleAd == [pc |-> "off", platform |-> "none", token |-> FALSE, account |-> FALSE,
           start |-> 0, end |-> 0, sent |-> << >>,
           resp |-> [kind |-> "none", rows |-> << >>], requests |-> 0,
           result |-> Pending]

\* A chat message of the component; `error` tells whether the error field is set
Message(id, text, sender, isLoading, error) ==
  [id |-> id, text |-> text, sender |-> sender, isLoading |-> isLoading,
   error |-> error]

Greeting == Message(0, "Hello! I'm your expert Paid Social Media strategist.", "ai",
                    FALSE, FALSE)

\* The component after mounting: the greeting, an empty input, nothing awaited.
\* `clock` is Date.now(), `submits` counts the form submissions, `reqs` holds
\* the fetch calls that have not returned to the component yet.
MountedChat ==
  [pc |-> "mounted", messages |-> <<Greeting>>, input |-> "",
   isLoadingAiResponse |-> FALSE, error |-> "null", clock |-> 0, submits |-> 0,
   reqs |-> << >>]

OffChat == [MountedChat EXCEPT !.pc = "off", !.messages = << >>]

NoAskRequest ==
  [method |-> "none",
   body |-> [kind |-> "absent", userQuery |-> [k |-> "missing", s |-> ""],
             marketingData |-> [k |-> "missing", len |-> 0],
             history |-> [k |-> "missing", msgs |-> << >>]]]

NoAskResponse == [statusCode |-> 0, kind |-> "none", text |-> ""]

\* One invocation of the ask-gemini handler; `calls` counts the calls of the
\* chat service, `passed` is the history handed to chats.create; `apiKey`
\* tells whether GEMINI_API_KEY is set and `others` counts the requests of
\* callers other than the component.
IdleAsk ==
  [pc |-> "idle", apiKey |-> TRUE, others |-> 0,
   from |-> "none", reqId |-> 0, req |-> NoAskRequest, calls |-> 0,
   passed |-> << >>, result |-> [k |-> "none", text |-> "", cls |-> "none"],
   response |-> NoAskResponse]

FullLoad == [nows |-> Nows, days |-> DaysParams, kinds |-> FailureKinds \cup {"ok"},
             rows |-> MaxRows]

\* responses of at most load.rows rows and of the kinds in load.kinds
Offered(choices) ==
  { resp \in Responses(choices) :
      resp.kind \in load.kinds /\ Len(resp.rows) <= load.rows }

Init ==
  /\ tz \in Zones
  /\ env \in EnvChoices
  /\ runs = [r \in Runs |-> IF r = 1 THEN IdleRun ELSE OffRun]
  /\ client = IdleClient
  /\ ga = IdleGa
  /\ dm = IdleDm
  /\ load = FullLoad
  /\ ad = IdleAd
  /\ chat = OffChat
  /\ ask = IdleAsk

\* handler(event) up to the await of Promise.allSettled
Start(r) ==
  /\ runs[r].pc = "idle"
  /\ \E method \in {"GET", "POST"}, days \in load.days, now \in load.nows :
       LET req == [runs[r] EXCEPT !.method = method, !.days = days, !.now = now]
       IN
       IF method # "GET"
       THEN runs' = [runs EXCEPT ![r] =
                       [req EXCEPT !.pc = "responded",
                                   !.response = [statusCode |-> 405, body |-> << >>]]]
       ELSE IF CredentialsMissing(env)
       THEN runs' = [runs EXCEPT ![r] =
                       [req EXCEPT !.pc = "responded",
                                   !.response = [statusCode |-> 503, body |-> << >>]]]
       ELSE LET daysToFetch == DaysToFetch(days)
                endDate == now
                startDate == SetDatePlus(tz, now, 0 - (daysToFetch - 1))
            IN  runs' = [runs EXCEPT ![r] =
                  [req EXCEPT
                     !.pc = "awaiting",
                     !.daysToFetch = daysToFetch,
                     !.start = formatDate(startDate),
                     !.end = formatDate(endDate),
                     !.upstream =
                        (IF FbConfigured(env.metaToken, env.metaAccount) THEN 1 ELSE 0)
                        + (IF TtConfigured(env.ttToken, env.ttAdvertiser) THEN 1 ELSE 0)]]
  /\ UNCHANGED <<tz, env, client, ga, dm, load, ad, chat, ask>>

\* the fetchFacebookData promise settles
FbSettle(r) ==
  /\ runs[r].pc = "awaiting"
  /\ runs[r].fb.status = "pending"
  /\ \E resp \in Offered(FbRowChoices(runs[r].start, runs[r].end)) :
       runs' = [runs EXCEPT
                  ![r].fb = fetchFacebookData(resp, env.metaToken, env.metaAccount),
                  ![r].first = IF runs[r].first = "none" THEN "fb" ELSE runs[r].first]
  /\ UNCHANGED <<tz, env, client, ga, dm, load, ad, chat, ask>>

\* the fetchTikTokData promise settles
TtSettle(r) ==
  /\ runs[r].pc = "awaiting"
  /\ runs[r].tt.status = "pending"
  /\ \E resp \in Offered(TtRowChoices(runs[r].start, runs[r].end)) :
       runs' = [runs EXCEPT
                  ![r].tt = fetchTikTokData(resp, env.ttToken, env.ttAdvertiser),
                  ![r].first = IF runs[r].first = "none" THEN "tt" ELSE runs[r].first]
  /\ UNCHANGED <<tz, env, client, ga, dm, load, ad, chat, ask>>

\* (variant: the adapter results live in variables of the module, which the
\* run that settled last has overwritten)
RespondShared(r) ==
  /\ runs[r].pc = "awaiting"
  /\ AllSettled(runs[r].fb, runs[r].tt)
  /\ LET others == { o \in Runs \ {r} :
                      /\ runs[o].pc \in {"awaiting", "responded"}
                      /\ runs[o].first # "none"
                      /\ AllSettled(runs[o].fb, runs[o].tt) }
         src == IF others = {} THEN r ELSE CHOOSE o \in others : TRUE
         results == JoinResults(runs[src].fb, runs[src].tt, runs[src].first)
     IN  runs' = [runs EXCEPT
           ![r].pc = "responded",
           ![r].response = HandlerResult(tz, runs[r].start, runs[r].end,
                                         results[1], results[2])]
  /\ UNCHANGED <<tz, env, client, ga, dm, load, ad, chat, ask>>

\* handler(event) after the await: merge, sort, respond
Respond(r) ==
  /\ runs[r].pc = "awaiting"
  /\ AllSettled(runs[r].fb, runs[r].tt)
  /\ LET results == JoinResults(runs[r].fb, runs[r].tt, runs[r].first)
     IN  runs' = [runs EXCEPT
           ![r].pc = "responded",
           ![r].response = HandlerResult(tz, runs[r].start, runs[r].end,
                                         results[1], results[2])]
  /\ UNCHANGED <<tz, env, client, ga, dm, load, ad, chat, ask>>

\* App.loadDataForTable after fetchLiveMarketingData returned
ClientReceive(r) ==
  /\ runs[r].pc = "responded"
  /\ client.pc = "idle"
  /\ client' = IF runs[r].response.statusCode = 200
               THEN [pc |-> "loaded",
                     tableData |-> processApiData(runs[r].response.body),
                     error |-> FALSE]
               ELSE [pc |-> "loaded", tableData |-> << >>, error |-> TRUE]
  /\ UNCHANGED <<tz, env, runs, ga, dm, load, ad, chat, ask>>

Next ==
  \E r \in Runs :
    \/ Start(r)
    \/ FbSettle(r)
    \/ TtSettle(r)
    \/ Respond(r)
    \/ ClientReceive(r)

Spec == Init /\ [][Next]_vars

\* ------------------------------------------------- two concurrent requests
\* Both invocations are live; requests arrive on 14 June 23:00 UTC without a
\* `days` parameter, and each upstream either fails at the network or answers
\* with at most one row.
ConcLoad == [nows |-> { (2 * 365 + 164) * HoursPerDay + 23 }, days |-> {Absent},
             kinds |-> {"network_error", "ok"}, rows |-> 1]

InitConc ==
  /\ tz \in { z \in Zones : z.name \in {"UTC", "London"} }
  /\ env = AllCredentials
  /\ runs = [r \in Runs |-> IdleRun]
  /\ client = IdleClient
  /\ ga = IdleGa
  /\ dm = IdleDm
  /\ load = ConcLoad
  /\ ad = IdleAd
  /\ chat = OffChat
  /\ ask = IdleAsk

NextConc ==
  \E r \in Runs :
    \/ Start(r)
    \/ FbSettle(r)
    \/ TtSettle(r)
    \/ Respond(r)

SpecConc == InitConc /\ [][NextConc]_vars

\* ------------------------------------------------ getDateArray on its own
\* Range starts around the daylight-saving transitions of the zones (third
\* year) and one in mid February.
DateStarts == { 2 * 365 + 45, 2 * 365 + 67, 2 * 365 + 87, 2 * 365 + 88,
                2 * 365 + 297, 2 * 365 + 304 }

InitDates ==
  /\ tz \in Zones
  /\ env = AllCredentials
  /\ runs = [r \in Runs |-> OffRun]
  /\ client = IdleClient
  /\ dm = IdleDm
  /\ load = FullLoad
  /\ ad = IdleAd
  /\ chat = OffChat
  /\ ask = IdleAsk
  /\ \E s \in DateStarts : \E e \in (s - 2)..(s + MaxSpan) :
       ga = [pc |-> "ready", start |-> s, end |-> e, out |-> << >>]

CallGetDateArray ==
  /\ ga.pc = "ready"
  /\ ga' = [ga EXCEPT !.pc = "done", !.out = getDateArray(tz, ga.start, ga.end)]
  /\ UNCHANGED <<tz, env, runs, client, dm, load, ad, chat, ask>>

SpecDates == InitDates /\ [][CallGetDateArray]_vars

\* ------------------------------------------- metric derivation on its own
\* Base counters fed to the derivations: small counts, the counters of the
\* documented example (50 clicks, 1000 impressions, cost 25, 5 conversions),
\* and NaN (what parseInt/parseFloat make of a non-numeric upstream field).
CounterValues ==
  { Int2V(i) : i \in 0..MaxCount } \cup { Int2V(5), Int2V(25), Int2V(50), Int2V(1000), NaN }

TtSamples ==
  { [ttClicks |-> Zero, ttImpr |-> Zero, ttCost |-> Zero, ttConv |-> Zero],
    [ttClicks |-> Int2V(4), ttImpr |-> Int2V(300), ttCost |-> Num(21, 2), ttConv |-> Int2V(3)],
    [ttClicks |-> Int2V(50), ttImpr |-> Int2V(1000), ttCost |-> NaN, ttConv |-> Int2V(5)] }

InitMetric ==
  /\ tz = UtcZone
  /\ env = AllCredentials
  /\ runs = [r \in Runs |-> OffRun]
  /\ client = IdleClient
  /\ ga = IdleGa
  /\ load = FullLoad
  /\ ad = IdleAd
  /\ chat = OffChat
  /\ ask = IdleAsk
  /\ \E c, i, s, v \in CounterValues : \E t \in TtSamples :
       dm = [IdleDm EXCEPT
               !.pc = "ready",
               !.base = Spread([date |-> 0, fbClicks |-> c, fbImpr |-> i,
                                fbCost |-> s, fbConv |-> v], t)]

\* the server derives the ratios of one day and serialises the record
ServerDerive ==
  /\ dm.pc = "ready"
  /\ LET rec == Spread(dm.base, calculateAllDerivedMetrics(dm.base))
     IN  dm' = [dm EXCEPT !.pc = "served", !.server = rec,
                          !.wire = SerializeRecord(rec)]
  /\ UNCHANGED <<tz, env, runs, client, ga, load, ad, chat, ask>>

\* the client re-derives the ratios of the record it parsed
ClientDerive ==
  /\ dm.pc = "served"
  /\ dm' = [dm EXCEPT !.pc = "done", !.client = processApiData(<<dm.wire>>)[1]]
  /\ UNCHANGED <<tz, env, runs, client, ga, load, ad, chat, ask>>

NextMetric == ServerDerive \/ ClientDerive

SpecMetric == InitMetric /\ [][NextMetric]_vars

\* ------------------------------------------------ one adapter on its own
\* Raw values of one upstream row field: absent, a non-numeric string, a count
RawValues == { Missing, Text, Int2V(MaxCount) }

\* The first row of a response takes every combination of raw values (for
\* Meta the conversion is also the absence of the action); the rows after it
\* come from two fixed rows, one of them for the same day.
AdFirstRows(platform) ==
  { [date |-> 0, spend |-> s, clicks |-> c, impressions |-> i, conv |-> v] :
      s \in RawValues, c \in RawValues, i \in RawValues,
      v \in RawValues \cup (IF platform = "fb" THEN {NoAction} ELSE {}) }

AdLaterRows ==
  { [date |-> 0, spend |-> Int2V(25), clicks |-> Int2V(50),
     impressions |-> Int2V(1000), conv |-> Int2V(5)],
    [date |-> 1, spend |-> Text, clicks |-> Missing,
     impressions |-> Int2V(0), conv |-> Missing] }

AdRowSeqs(platform) ==
  { << >> } \cup
  { <<first>> \o rest : first \in AdFirstRows(platform),
                        rest \in UNION { [1..n -> AdLaterRows] : n \in 0..(MaxRows - 1) } }

AdResponses(platform) ==
  { [kind |-> k, rows |-> << >>] : k \in FailureKinds }
    \cup { [kind |-> "ok", rows |-> rows] : rows \in AdRowSeqs(platform) }

\* The ranges an adapter is asked for: one day, two days, 90 days
AdRanges == { <<0, 0>>, <<0, 1>>, <<0, 89>> }

InitAdapter ==
  /\ tz = UtcZone
  /\ env = AllCredentials
  /\ runs = [r \in Runs |-> OffRun]
  /\ client = IdleClient
  /\ ga = IdleGa
  /\ dm = IdleDm
  /\ load = FullLoad
  /\ chat = OffChat
  /\ ask = IdleAsk
  /\ \E platform \in {"fb", "tt"}, token \in BOOLEAN, account \in BOOLEAN,
        range \in AdRanges :
       ad = [IdleAd EXCEPT !.pc = "ready", !.platform = platform,
                           !.token = token, !.account = account,
                           !.start = range[1], !.end = range[2]]

\* the adapter is called: it returns at once when a credential is absent,
\* and sends its one request otherwise
AdapterCall ==
  /\ ad.pc = "ready"
  /\ IF ad.platform = "fb"
     THEN IF ~FbConfigured(ad.token, ad.account)
          THEN ad' = [ad EXCEPT !.pc = "settled",
                        !.result = fetchFacebookData(ad.resp, ad.token, ad.account)]
          ELSE ad' = [ad EXCEPT !.pc = "fetching", !.requests = ad.requests + 1,
                        !.sent = Append(ad.sent, FbRequest(ad.start, ad.end))]
     ELSE IF ~TtConfigured(ad.token, ad.account)
          THEN ad' = [ad EXCEPT !.pc = "settled",
                        !.result = fetchTikTokData(ad.resp, ad.token, ad.account)]
          ELSE ad' = [ad EXCEPT !.pc = "fetching", !.requests = ad.requests + 1,
                        !.sent = Append(ad.sent, TtRequest(ad.start, ad.end))]
  /\ UNCHANGED <<tz, env, runs, client, ga, dm, load, chat, ask>>

\* the upstream answers the request and the adapter settles
AdapterSettle ==
  /\ ad.pc = "fetching"
  /\ \E resp \in AdResponses(ad.platform) :
       ad' = [ad EXCEPT
                !.pc = "settled",
                !.resp = resp,
                !.result = IF ad.platform = "fb"
                           THEN fetchFacebookData(resp, ad.token, ad.account)
                           ELSE fetchTikTokData(resp, ad.token, ad.account)]
  /\ UNCHANGED <<tz, env, runs, client, ga, dm, load, chat, ask>>

NextAdapter == AdapterCall \/ AdapterSettle

SpecAdapter == InitAdapter /\ [][NextAdapter]_vars

\* ------------------------------------------------------- ask-gemini: handler
\* Strings that trim() reduces to the empty string
BlankStrings == {"", "   "}

Trim(s) == IF s \in BlankStrings THEN "" ELSE s

\* A response of the handler: a status and a JSON body, {reply: text} or
\* {error: {message: text}}
AskReply(text) == [statusCode |-> 200, kind |-> "reply", text |-> text]
AskError(statusCode, message) == [statusCode |-> statusCode, kind |-> "error", text |-> message]

\* (variant: messages marked isLoading are kept)
validHistoryKeepLoading(history) ==
  SelectSeq(history,
            LAMBDA msg : /\ msg.text.k = "string" /\ Trim(msg.text.s) # ""
                         /\ msg.sender.k = "string")

\* history.filter(...): messages with a non-blank string text and a string
\* sender that are not marked isLoading
validHistoryFilter(history) ==
  SelectSeq(history,
            LAMBDA msg : /\ msg.text.k = "string" /\ Trim(msg.text.s) # ""
                         /\ msg.sender.k = "string"
                         /\ ~msg.isLoading)

\* ... .map(msg => ({role, parts: [{text}]})); isLoading is kept in the model
\* to show what the filter let through
validHistory(history) ==
  LET kept == validHistoryFilter(history)
  IN  [i \in 1..Len(kept) |->
         [role |-> IF kept[i].sender.s = "user" THEN "user" ELSE "model",
          text |-> kept[i].text.s,
          isLoading |-> kept[i].isLoading]]

\* The part of the handler before chat.sendMessage is awaited: the response
\* it returns, or status 0 when it goes on to call the chat service. Reading
\* the fields of a body that is undefined or null, and filtering a history
\* that is not an array, throw a TypeError, which the catch block answers 500.
AskCheck(req, apiKey) ==
  IF req.method # "POST"
  THEN AskError(405, "Method Not Allowed. Please use POST.")
  ELSE IF ~apiKey
  THEN AskError(500, "AI service is not configured. Missing API key.")
  ELSE IF req.body.kind = "unparsable"
  THEN AskError(400, "Invalid request body: Not valid JSON.")
  ELSE IF req.body.kind = "absent"
  THEN AskError(500, "TypeError")
  ELSE IF \/ req.body.userQuery.k # "string"
          \/ Trim(req.body.userQuery.s) = ""
  THEN AskError(400, "Invalid or missing 'userQuery' in the request body.")
  ELSE IF req.body.marketingData.k # "array"
  THEN AskError(400, "Invalid or missing 'marketingData' array in the request body.")
  ELSE IF req.body.history.k = "notarray"
  THEN AskError(500, "TypeError")
  ELSE NoAskResponse

\* (variant: an empty reply text is taken for a missing one)
AskOutcomeFalsyText(result) ==
  IF result.k = "text" /\ result.text # ""
  THEN AskReply(result.text)
  ELSE AskError(500, "The AI model returned an unexpected response. Please try again.")

\* The part of the handler after chat.sendMessage settled: the reply passed
\* on, or the catch block choosing status and message from the error text
AskOutcome(result) ==
  CASE result.k = "text" -> AskReply(result.text)
    [] result.k = "notext" ->
         AskError(500, "The AI model returned an unexpected response. Please try again.")
    [] result.cls = "apikey" ->
         AskError(401, "AI service authentication failed: Invalid API key.")
    [] result.cls = "quota" ->
         AskError(429, "AI service quota exceeded. Please try again later.")
    [] OTHER -> AskError(500, result.text)

\* --------------------------------------------------- ChatAssistant: component
MaxSubmits == 2
MaxOthers == 1

\* (variant: sendMessage tests the input only)
SendGuardBlankOnly(input, isLoadingAiResponse) == Trim(input) = ""

\* The guard of sendMessage: it returns at once on a blank input or while a
\* response is awaited
SendGuard(input, isLoadingAiResponse) == Trim(input) = "" \/ isLoadingAiResponse

\* messages.filter(...): without the greeting while it is the only AI
\* message, and without loading messages
historyForBackend(messages) ==
  LET aiCount == Cardinality({ i \in 1..Len(messages) : messages[i].sender = "ai" })
  IN  SelectSeq(messages,
                LAMBDA msg :
                  IF msg.sender = "ai" /\ aiCount = 1 /\ msg.text = Greeting.text
                  THEN FALSE
                  ELSE ~msg.isLoading)

\* JSON.stringify of the messages, as the handler reads them
ToWire(messages) ==
  [i \in 1..Len(messages) |->
     [text |-> [k |-> "string", s |-> messages[i].text],
      sender |-> [k |-> "string", s |-> messages[i].sender],
      isLoading |-> messages[i].isLoading]]

\* What fetch gave the component: the handler's response, a rejection of fetch
\* itself, or a non-JSON error page of the platform in front of the handler
NoFetch == [kind |-> "none", statusCode |-> 0, body |-> NoAskResponse]
HttpResponse(resp) == [kind |-> "http", statusCode |-> resp.statusCode, body |-> resp]
FetchFailures ==
  { [kind |-> "network", statusCode |-> 0, body |-> NoAskResponse],
    [kind |-> "gateway", statusCode |-> 504, body |-> NoAskResponse] }

\* The message of the error the try block throws for a response, "none" when
\* the response is a reply
ThrownBy(resp) ==
  CASE resp.kind = "network" -> "Failed to fetch"
    [] resp.kind = "gateway" -> "SyntaxError"
    [] resp.statusCode # 200 -> resp.body.text
    [] OTHER -> "none"

\* (variant: without the catch block, a failed request leaves the message as
\* it is)
FinalMessageNoCatch(msg, resp) ==
  IF ThrownBy(resp) = "none"
  THEN Message(msg.id, resp.body.text, "ai", FALSE, FALSE)
  ELSE msg

\* The message the placeholder is replaced by: the reply, or the apology with
\* the error field set
FinalMessage(msg, resp) ==
  IF ThrownBy(resp) = "none"
  THEN Message(msg.id, resp.body.text, "ai", FALSE, FALSE)
  ELSE Message(msg.id, "Sorry, I encountered an error. Please try again.", "ai",
               FALSE, TRUE)

\* prev.map(msg => msg.id === aiLoadingMessageId ? {...} : msg)
ReplaceById(messages, id, resp) ==
  [i \in 1..Len(messages) |->
     IF messages[i].id = id THEN FinalMessage(messages[i], resp) ELSE messages[i]]

RemoveAt(seq, i) == SubSeq(seq, 1, i - 1) \o SubSeq(seq, i + 1, Len(seq))

\* Texts typed into the input field
ChatInputs == {"   ", "Which platform has the lower CPA?"}

\* What chat.sendMessage may do: return a text (one of them empty), return
\* something without a text, or throw
GeminiResults ==
  { [k |-> "text", text |-> "Move budget towards the lower CPA.", cls |-> "none"],
    [k |-> "text", text |-> "", cls |-> "none"],
    [k |-> "notext", text |-> "", cls |-> "none"],
    [k |-> "throws", text |-> "API key not valid. Please pass a valid API key.",
     cls |-> "apikey"],
    [k |-> "throws", text |-> "Quota exceeded.", cls |-> "quota"],
    [k |-> "throws", text |-> "fetch failed", cls |-> "other"] }

\* Bodies sent by callers other than the component
GoodQuery == [k |-> "string", s |-> "Which platform has the lower CPA?"]
GoodData == [k |-> "array", len |-> 0]
NoHistory == [k |-> "missing", msgs |-> << >>]

WireMessage(text, sender, isLoading) ==
  [text |-> text, sender |-> [k |-> "string", s |-> sender], isLoading |-> isLoading]

OtherHistories ==
  { NoHistory,
    [k |-> "notarray", msgs |-> << >>],
    [k |-> "array",
     msgs |-> << WireMessage([k |-> "string", s |-> "Analyzing data and preparing insights..."],
                             "ai", TRUE) >>],
    [k |-> "array",
     msgs |-> << WireMessage([k |-> "string", s |-> "How did TikTok do?"], "user", FALSE),
                 WireMessage([k |-> "string", s |-> "Analyzing data and preparing insights..."],
                             "ai", TRUE),
                 WireMessage([k |-> "string", s |-> "   "], "user", FALSE),
                 WireMessage([k |-> "number", s |-> ""], "ai", FALSE) >>] }

OtherBodies ==
  { [NoAskRequest.body EXCEPT !.kind = "unparsable"],
    NoAskRequest.body }
  \cup { [kind |-> "object", userQuery |-> q, marketingData |-> GoodData,
          history |-> NoHistory] :
           q \in { [k |-> "missing", s |-> ""], [k |-> "number", s |-> ""],
                   [k |-> "string", s |-> "   "] } }
  \cup { [kind |-> "object", userQuery |-> GoodQuery, marketingData |-> m,
          history |-> NoHistory] :
           m \in { [k |-> "missing", len |-> 0], [k |-> "object", len |-> 0] } }
  \cup { [kind |-> "object", userQuery |-> GoodQuery, marketingData |-> GoodData,
          history |-> h] : h \in OtherHistories }

OtherRequests == { [method |-> m, body |-> b] : m \in {"POST", "GET"}, b \in OtherBodies }

\* The table the dashboard may hold when the chat is opened: none, or one day
LoadedClient ==
  [pc |-> "loaded",
   tableData |-> processApiData(<<SerializeRecord(MergeDay(<< >>, << >>, 0))>>),
   error |-> FALSE]

InitChat ==
  /\ tz = UtcZone
  /\ env = AllCredentials
  /\ runs = [r \in Runs |-> OffRun]
  /\ client \in {IdleClient, LoadedClient}
  /\ ga = IdleGa
  /\ dm = IdleDm
  /\ load = FullLoad
  /\ ad = IdleAd
  /\ chat = MountedChat
  /\ \E key \in BOOLEAN : ask = [IdleAsk EXCEPT !.apiKey = key]

\* onChange of the input field
TypeInput ==
  /\ chat.pc = "mounted"
  /\ \E s \in ChatInputs : s # chat.input /\ chat' = [chat EXCEPT !.input = s]
  /\ UNCHANGED <<tz, env, runs, client, ga, dm, load, ad, ask>>

\* handleFormSubmit: sendMessage up to the await of fetch. The clock has
\* advanced since the last submission; it may tick once more between the two
\* readings of Date.now().
Submit ==
  /\ chat.pc = "mounted"
  /\ chat.submits < MaxSubmits
  /\ IF SendGuard(chat.input, chat.isLoadingAiResponse)
     THEN chat' = [chat EXCEPT !.submits = chat.submits + 1]
     ELSE \E tick \in {0, 1} :
            LET now == chat.clock + 1
                userInput == Message(now, chat.input, "user", FALSE, FALSE)
                aiLoadingMessageId == (now + tick) + 1
                placeholder == Message(aiLoadingMessageId,
                                       "Analyzing data and preparing insights...",
                                       "ai", TRUE, FALSE)
                body == [kind |-> "object",
                         userQuery |-> [k |-> "string", s |-> chat.input],
                         marketingData |-> [k |-> "array", len |-> Len(client.tableData)],
                         history |-> [k |-> "array",
                                      msgs |-> ToWire(historyForBackend(chat.messages))]]
            IN  chat' = [chat EXCEPT
                  !.submits = chat.submits + 1,
                  !.messages = chat.messages \o <<userInput, placeholder>>,
                  !.input = "",
                  !.isLoadingAiResponse = TRUE,
                  !.error = "null",
                  !.clock = now + tick,
                  !.reqs = Append(chat.reqs,
                                  [id |-> aiLoadingMessageId, pc |-> "sent",
                                   body |-> body, response |-> NoFetch])]
  /\ UNCHANGED <<tz, env, runs, client, ga, dm, load, ad, ask>>

\* the handler takes up a request: everything before chat.sendMessage is awaited
AskTake(from, reqId, req) ==
  LET checked == AskCheck(req, ask.apiKey)
  IN  IF checked.statusCode # 0
      THEN [ask EXCEPT !.pc = "answered", !.from = from, !.reqId = reqId,
                       !.req = req, !.response = checked]
      ELSE [ask EXCEPT !.pc = "calling", !.from = from, !.reqId = reqId,
                       !.req = req, !.calls = ask.calls + 1,
                       !.passed = validHistory(req.body.history.msgs)]

\* the request of the component reaches the handler
AskReceive(i) ==
  /\ ask.pc = "idle"
  /\ chat.reqs[i].pc = "sent"
  /\ ask' = AskTake("component", chat.reqs[i].id,
                     [method |-> "POST", body |-> chat.reqs[i].body])
  /\ chat' = [chat EXCEPT !.reqs[i].pc = "handling"]
  /\ UNCHANGED <<tz, env, runs, client, ga, dm, load, ad>>

\* a request of another caller reaches the handler
AskReceiveOther ==
  /\ ask.pc = "idle"
  /\ chat.pc = "mounted"
  /\ ask.others < MaxOthers
  /\ \E req \in OtherRequests :
       ask' = [AskTake("other", 0, req) EXCEPT !.others = ask.others + 1]
  /\ UNCHANGED <<tz, env, runs, client, ga, dm, load, ad, chat>>

\* chat.sendMessage settles and the handler returns
AskSettle ==
  /\ ask.pc = "calling"
  /\ \E result \in GeminiResults :
       ask' = [ask EXCEPT !.pc = "answered", !.result = result,
                          !.response = AskOutcome(result)]
  /\ UNCHANGED <<tz, env, runs, client, ga, dm, load, ad, chat>>

\* the response of the handler travels back to its caller
AskReturn ==
  /\ ask.pc = "answered"
  /\ ask' = [IdleAsk EXCEPT !.apiKey = ask.apiKey, !.others = ask.others]
  /\ chat' = IF ask.from = "component"
             THEN [chat EXCEPT !.reqs =
                     [i \in 1..Len(chat.reqs) |->
                        IF chat.reqs[i].id = ask.reqId /\ chat.reqs[i].pc = "handling"
                        THEN [chat.reqs[i] EXCEPT !.pc = "arrived",
                                                  !.response = HttpResponse(ask.response)]
                        ELSE chat.reqs[i]]]
             ELSE chat
  /\ UNCHANGED <<tz, env, runs, client, ga, dm, load, ad>>

\* the request of the component fails before it reaches the handler
FetchFails(i) ==
  /\ chat.reqs[i].pc = "sent"
  /\ \E failure \in FetchFailures :
       chat' = [chat EXCEPT !.reqs[i].pc = "arrived", !.reqs[i].response = failure]
  /\ UNCHANGED <<tz, env, runs, client, ga, dm, load, ad, ask>>

\* sendMessage after the await of fetch: the try block, catch and finally
ClientSettle(i) ==
  /\ chat.reqs[i].pc = "arrived"
  /\ LET resp == chat.reqs[i].response
     IN  chat' = [chat EXCEPT
           !.messages = ReplaceById(chat.messages, chat.reqs[i].id, resp),
           !.error = IF ThrownBy(resp) = "none" THEN chat.error ELSE ThrownBy(resp),
           !.isLoadingAiResponse = FALSE,
           !.reqs = RemoveAt(chat.reqs, i)]
  /\ UNCHANGED <<tz, env, runs, client, ga, dm, load, ad, ask>>

ChatRequests == 1..MaxSubmits

\* the component, the handler and the chat service
NextChatLive ==
  \/ TypeInput
  \/ Submit
  \/ AskSettle
  \/ AskReturn
  \/ \E i \in ChatRequests :
       /\ i <= Len(chat.reqs)
       /\ (AskReceive(i) \/ FetchFails(i) \/ ClientSettle(i))

NextChat == NextChatLive \/ AskReceiveOther

SpecChat == InitChat /\ [][NextChat]_vars

\* The component with the handler configured and serving it alone; the event
\* loop runs the continuation of a fetch that has settled.
InitChatLive ==
  /\ InitChat
  /\ client = IdleClient
  /\ ask.apiKey

SpecChatLive ==
  /\ InitChatLive
  /\ [][NextChatLive]_vars
  /\ WF_vars(\E i \in ChatRequests : i <= Len(chat.reqs) /\ ClientSettle(i))

\* ========================================================================
\* Properties
\* ========================================================================
\* The table of a run that answered with status 200
Answered(r) == runs[r].pc = "responded" /\ runs[r].response.statusCode = 200
Table(r) == runs[r].response.body
TableDays(r) == { Table(r)[i].date : i \in 1..Len(Table(r)) }

FbBase == {"fbClicks", "fbImpr", "fbCost", "fbConv"}
TtBase == {"ttClicks", "ttImpr", "ttCost", "ttConv"}
FbDerived == {"fbCtr", "fbCpm", "fbCpc", "fbCpa", "fbCvr"}
TtDerived == {"ttCtr", "ttCpm", "ttCpc", "ttCpa", "ttCvr"}

\* The ratio table of the design: output field, numerator, denominator, multiplier
Ratios ==
  { [out |-> "fbCtr", num |-> "fbClicks", den |-> "fbImpr",   mul |-> 100],
    [out |-> "fbCpm", num |-> "fbCost",   den |-> "fbImpr",   mul |-> 1000],
    [out |-> "fbCpc", num |-> "fbCost",   den |-> "fbClicks", mul |-> 1],
    [out |-> "fbCpa", num |-> "fbCost",   den |-> "fbConv",   mul |-> 1],
    [out |-> "fbCvr", num |-> "fbConv",   den |-> "fbClicks", mul |-> 100],
    [out |-> "ttCtr", num |-> "ttClicks", den |-> "ttImpr",   mul |-> 100],
    [out |-> "ttCpm", num |-> "ttCost",   den |-> "ttImpr",   mul |-> 1000],
    [out |-> "ttCpc", num |-> "ttCost",   den |-> "ttClicks", mul |-> 1],
    [out |-> "ttCpa", num |-> "ttCost",   den |-> "ttConv",   mul |-> 1],
    [out |-> "ttCvr", num |-> "ttConv",   den |-> "ttClicks", mul |-> 100] }

\* ------------------------------------------------------------------------
\* C1: every run of the get-live-data handler that answers 200 with effective
\* lookback L returns a table of exactly L records, no two of them with the
\* same date.
C1_FullRangeOnce ==
  \A r \in Runs :
    Answered(r) =>
      /\ Len(Table(r)) = runs[r].daysToFetch
      /\ Cardinality(TableDays(r)) = Len(Table(r))

\* ------------------------------------------------------------------------
\* C2: the returned table is sorted strictly descending by date: each record
\* has a strictly later day than the record after it.
C2_StrictlyDescending ==
  \A r \in Runs :
    Answered(r) =>
      \A i \in 1..(Len(Table(r)) - 1) : Table(r)[i].date > Table(r)[i + 1].date

\* ------------------------------------------------------------------------
\* C3: for start <= end, getDateArray(start, end) is exactly the ascending
\* run of the end - start + 1 consecutive days from start to end.
C3_EnumerateExact ==
  (ga.pc = "done" /\ ga.start <= ga.end) =>
    ga.out = [i \in 1..(ga.end - ga.start + 1) |-> ga.start + i - 1]

\* ------------------------------------------------------------------------
\* C4: in every process time zone and across every daylight-saving
\* transition, getDateArray skips no day of the range and lists no day twice.
C4_NoSkipNoRepeat ==
  (ga.pc = "done" /\ ga.start <= ga.end) =>
    \A day \in ga.start..ga.end :
      Cardinality({ i \in 1..Len(ga.out) : ga.out[i] = day }) = 1

\* What the body shows of one platform's adapter mapping on one day
Shown(data, day, default, f) == JsonRoundTrip(Lookup(data, day, default)[f])

AllZero(rec, fields) == \A f \in fields : rec[f] = Zero

\* The degraded table of a run: status 200 and one record per requested day
FullLength(r) ==
  /\ runs[r].response.statusCode = 200
  /\ Len(Table(r)) = runs[r].daysToFetch

\* ------------------------------------------------------------------------
\* C5: when exactly one adapter call rejects and the other fulfils, the
\* handler still returns the full-length table; every record has zero base
\* counters and zero ratios for the failed platform and, for the other
\* platform, the values its adapter returned.
C5_OneAdapterDown ==
  \A r \in Runs :
    runs[r].pc = "responded" =>
      /\ (runs[r].fb.status = "rejected" /\ runs[r].tt.status = "fulfilled") =>
           /\ FullLength(r)
           /\ \A i \in 1..Len(Table(r)) :
                /\ AllZero(Table(r)[i], FbBase \cup FbDerived)
                /\ \A f \in TtBase :
                     Table(r)[i][f] =
                       Shown(runs[r].tt.value, Table(r)[i].date, defaultTtEntry, f)
      /\ (runs[r].tt.status = "rejected" /\ runs[r].fb.status = "fulfilled") =>
           /\ FullLength(r)
           /\ \A i \in 1..Len(Table(r)) :
                /\ AllZero(Table(r)[i], TtBase \cup TtDerived)
                /\ \A f \in FbBase :
                     Table(r)[i][f] =
                       Shown(runs[r].fb.value, Table(r)[i].date, defaultFbEntry, f)

\* ------------------------------------------------------------------------
\* C6: when both adapter calls reject, the handler answers 200 with the
\* full-length table in which every base counter and every ratio is 0.
C6_BothAdaptersDown ==
  \A r \in Runs :
    (runs[r].pc = "responded"
       /\ runs[r].fb.status = "rejected" /\ runs[r].tt.status = "rejected") =>
      /\ FullLength(r)
      /\ \A i \in 1..Len(Table(r)) :
           AllZero(Table(r)[i], FbBase \cup FbDerived \cup TtBase \cup TtDerived)

\* ------------------------------------------------------------------------
\* C7: the join is all-settle: a run has built and returned its table only
\* when both adapter calls have settled; one call's rejection never lets the
\* handler respond while the other call is still pending.
C7_AllSettleJoin ==
  \A r \in Runs :
    Answered(r) =>
      /\ runs[r].fb.status \in {"fulfilled", "rejected"}
      /\ runs[r].tt.status \in {"fulfilled", "rejected"}

\* C7 witness: a run answered after one call rejected and the other, settling
\* later or earlier, fulfilled with data.
C7_Witness ==
  \E r \in Runs :
    /\ Answered(r)
    /\ runs[r].fb.status = "rejected"
    /\ runs[r].tt.status = "fulfilled"
    /\ DOMAIN runs[r].tt.value # {}

\* ------------------------------------------------------------------------
\* C8: whenever the denominator of a ratio is 0 the derived value is exactly
\* 0, never NaN or Infinity, on the server (from the base counters) and on
\* the client (from the counters of the parsed record) alike.
C8_ZeroDenominator ==
  /\ dm.pc \in {"served", "done"} =>
       \A q \in Ratios : StrictZero(dm.base[q.den]) => dm.server[q.out] = Zero
  /\ dm.pc = "done" =>
       \A q \in Ratios : StrictZero(dm.wire[q.den]) => dm.client[q.out] = Zero

\* C8 witness: both derivations ran on an entry with clicks and cost but no
\* impressions, and one with all four Facebook counters 0.
C8_Witness ==
  /\ dm.pc = "done"
  /\ dm.base.fbImpr = Zero /\ dm.base.fbClicks = Int2V(5) /\ dm.base.fbCost = Int2V(25)
  /\ dm.server.fbCtr = Zero /\ dm.client.fbCpm = Zero
  /\ AllZero(dm.base, TtBase) /\ AllZero(dm.client, TtDerived)

\* ------------------------------------------------------------------------
\* C9: a ratio whose numerator or denominator is non-numeric (NaN on the
\* server, the null it becomes in JSON on the client) is exactly 0 in both
\* derivations.
NonNumeric(v) == v.k \in {"nan", "null"}

C9_NonNumericIsZero ==
  /\ dm.pc \in {"served", "done"} =>
       \A q \in Ratios :
         (NonNumeric(dm.base[q.num]) \/ NonNumeric(dm.base[q.den])) =>
           dm.server[q.out] = Zero
  /\ dm.pc = "done" =>
       \A q \in Ratios :
         (NonNumeric(dm.wire[q.num]) \/ NonNumeric(dm.wire[q.den])) =>
           dm.client[q.out] = Zero

\* ------------------------------------------------------------------------
\* C10: for numeric counters and a non-zero denominator every ratio equals
\* numerator / denominator * multiplier over the counters of its own platform
\* (clicks 50, impressions 1000, cost 25, conversions 5 give CTR 5, CPM 25,
\* CPC 0.5, CPA 5, CVR 10), on the server and on the client.
Numeric(rec, fields) == \A f \in fields : rec[f].k = "num"

\* v = a / b * m, by cross multiplication
RatioIs(v, a, b, m) == v.k = "num" /\ v.n * a.d * b.n = a.n * b.d * m * v.d

FormulasHold(base, derived) ==
  \A q \in Ratios :
    (/\ Numeric(base, IF q.out \in FbDerived THEN FbBase ELSE TtBase)
     /\ base[q.den].n # 0) =>
      RatioIs(derived[q.out], base[q.num], base[q.den], q.mul)

IsExample(base) ==
  /\ base.fbClicks = Int2V(50) /\ base.fbImpr = Int2V(1000)
  /\ base.fbCost = Int2V(25) /\ base.fbConv = Int2V(5)

ExampleHolds(base, derived) ==
  IsExample(base) =>
    /\ derived.fbCtr = Int2V(5) /\ derived.fbCpm = Int2V(25)
    /\ derived.fbCpc = Num(1, 2) /\ derived.fbCpa = Int2V(5)
    /\ derived.fbCvr = Int2V(10)

C10_ReferenceFormulas ==
  /\ dm.pc \in {"served", "done"} =>
       FormulasHold(dm.base, dm.server) /\ ExampleHolds(dm.base, dm.server)
  /\ dm.pc = "done" =>
       FormulasHold(dm.wire, dm.client) /\ ExampleHolds(dm.wire, dm.client)

\* C10 witness: both derivations ran on the documented example for Facebook
\* next to different, non-zero TikTok counters.
C10_Witness ==
  /\ dm.pc = "done"
  /\ IsExample(dm.base)
  /\ dm.base.ttClicks = Int2V(4) /\ dm.base.ttConv = Int2V(3)
  /\ dm.client.fbCpc = Num(1, 2)
  /\ dm.client.ttCvr = Int2V(75)

\* ------------------------------------------------------------------------
\* The mapping an adapter promise contributes to the merge: its value when it
\* fulfilled, nothing when it rejected
MappingOf(result) == IF result.status = "fulfilled" THEN result.value ELSE << >>

\* the fields of a platform in a record are the entry's counters as serialised
CarriesEntry(rec, entry, fields) == \A f \in fields : rec[f] = JsonRoundTrip(entry[f])

UpstreamFailures == {"http_error", "http_error_badbody", "bad_body", "error_payload"}

\* the rejection reasons that name the platform and carry the upstream message
NamesPlatformAndMessage(platform, reason) ==
  IF platform = "fb"
  THEN reason = "Facebook API request failed: upstream message"
  ELSE reason \in {"TikTok API request failed: upstream message",
                   "TikTok API error: upstream message"}

\* C12: for each of the two adapters, whenever the upstream answers with a
\* non-success HTTP status, a malformed body or an explicit error payload,
\* the adapter call rejects with an error that carries the platform name and
\* the upstream-provided message, and yields no mapping, not even an empty one.
C12_UpstreamFailureRejects ==
  (ad.pc = "settled" /\ ad.requests > 0 /\ ad.resp.kind \in UpstreamFailures) =>
     /\ ad.result.status = "rejected"
     /\ ad.result.value = << >>
     /\ NamesPlatformAndMessage(ad.platform, ad.result.reason)

\* ------------------------------------------------------------------------
\* The base counter of each platform and the upstream row field it is read from
CounterSources ==
  { [platform |-> "fb", out |-> "fbCost",   raw |-> "spend"],
    [platform |-> "fb", out |-> "fbClicks", raw |-> "clicks"],
    [platform |-> "fb", out |-> "fbImpr",   raw |-> "impressions"],
    [platform |-> "fb", out |-> "fbConv",   raw |-> "conv"],
    [platform |-> "tt", out |-> "ttCost",   raw |-> "spend"],
    [platform |-> "tt", out |-> "ttClicks", raw |-> "clicks"],
    [platform |-> "tt", out |-> "ttImpr",   raw |-> "impressions"],
    [platform |-> "tt", out |-> "ttConv",   raw |-> "conv"] }

\* C13: in both adapters every upstream row field that is missing or
\* non-numeric (spend, clicks, impressions, the conversion value) is mapped to
\* the base counter 0 and never makes the call fail, and no base counter an
\* adapter produces is NaN.
C13_CoercionToZero ==
  (ad.pc = "settled" /\ ad.requests > 0 /\ ad.resp.kind = "ok") =>
     /\ ad.result.status = "fulfilled"
     /\ \A day \in DOMAIN ad.result.value :
          \A c \in CounterSources :
            c.platform = ad.platform =>
              /\ ~isNaN(ad.result.value[day][c.out])
              /\ LastRow(ad.resp.rows, day)[c.raw].k \in {"missing", "text"} =>
                   ad.result.value[day][c.out] = Zero

\* ------------------------------------------------------------------------
\* The 19 fields of a daily record
RecordFields == {"date"} \cup FbBase \cup TtBase \cup FbDerived \cup TtDerived

\* C14: every record of every table the handler returns has exactly the 19
\* fields (date, four base counters and five ratios per platform), and each of
\* the 18 fields other than the date is a number after serialisation, never
\* null, NaN, Infinity or absent.
C14_TotalSchema ==
  \A r \in Runs :
    Answered(r) =>
      \A i \in 1..Len(Table(r)) :
        /\ DOMAIN Table(r)[i] = RecordFields
        /\ Numeric(Table(r)[i], RecordFields \ {"date"})

\* ------------------------------------------------------------------------
\* the four credentials are simultaneously present
AllFourPresent == env.metaToken /\ env.metaAccount /\ env.ttToken /\ env.ttAdvertiser

\* C15: if the four credentials are not all present, the handler refuses a
\* (GET) request with a 503 response before invoking either adapter: no
\* upstream call is made and no table data is returned.
C15_RefusesUnconfigured ==
  \A r \in Runs :
    (runs[r].method = "GET" /\ ~AllFourPresent) =>
       /\ runs[r].pc = "responded"
       /\ runs[r].response.statusCode = 503
       /\ runs[r].response.body = << >>
       /\ runs[r].upstream = 0
       /\ runs[r].fb = Pending
       /\ runs[r].tt = Pending

\* a GET request arrived while the TikTok advertiser id was unset
C15_Witness ==
  \E r \in Runs :
    /\ runs[r].method = "GET"
    /\ runs[r].pc = "responded"
    /\ env.metaToken /\ env.metaAccount /\ env.ttToken /\ ~env.ttAdvertiser

Accepted(r) == runs[r].pc \in {"awaiting", "responded"} /\ runs[r].daysToFetch # 0

\* C17: the effective lookback of a request is always 90 or 365; it is 365
\* only when the supplied days value is 365, and for every other supplied
\* value (absent, non-numeric, any other number) it is the default 90; the
\* request is not rejected on account of the value.
C17_EffectiveLookback ==
  \A r \in Runs :
    Accepted(r) =>
      /\ runs[r].daysToFetch \in {90, 365}
      /\ runs[r].daysToFetch = 365 <=> runs[r].days = [k |-> "num", n |-> 365, d |-> 1]
      /\ runs[r].pc = "responded" => runs[r].response.statusCode = 200

\* ------------------------------------------------------------------------
\* C18: the handler answers a GET request with a failed (non-200) response
\* only for missing credentials (503) or an impossible range computation
\* (500, which no request brings about); every way an adapter call can fail
\* is absorbed: the response is 200 and the failed platform's fields are 0 in
\* every record.
C18_OnlyConfigurationFails ==
  \A r \in Runs :
    (runs[r].pc = "responded" /\ runs[r].method = "GET") =>
       IF AllFourPresent
       THEN /\ runs[r].response.statusCode = 200
            /\ runs[r].fb.status = "rejected" =>
                 \A i \in 1..Len(Table(r)) : AllZero(Table(r)[i], FbBase \cup FbDerived)
            /\ runs[r].tt.status = "rejected" =>
                 \A i \in 1..Len(Table(r)) : AllZero(Table(r)[i], TtBase \cup TtDerived)
       ELSE runs[r].response.statusCode = 503

\* a GET run answered after the TikTok call rejected and the Meta call
\* fulfilled with data
C18_Witness ==
  \E r \in Runs :
    /\ runs[r].pc = "responded" /\ runs[r].method = "GET"
    /\ runs[r].tt.status = "rejected"
    /\ runs[r].fb.status = "fulfilled" /\ DOMAIN runs[r].fb.value # {}
    /\ Len(Table(r)) > 0

\* ------------------------------------------------------------------------
\* two runs over the same range whose adapter calls had the same outcomes
SameOutcomes(r1, r2) ==
  /\ runs[r1].start = runs[r2].start /\ runs[r1].end = runs[r2].end
  /\ runs[r1].fb = runs[r2].fb
  /\ runs[r1].tt = runs[r2].tt

\* C19: the merge is order-independent: for fixed adapter outcomes the table
\* the handler returns is the same whichever of the two adapter calls settled
\* first.
C19_OrderIndependent ==
  \A r1, r2 \in Runs :
    (Answered(r1) /\ Answered(r2) /\ SameOutcomes(r1, r2)) =>
       runs[r1].response = runs[r2].response

\* two answered runs with the same outcomes, data from both platforms, the
\* Meta call settling first in one run and the TikTok call in the other
C19_Witness ==
  /\ Answered(1) /\ Answered(2) /\ SameOutcomes(1, 2)
  /\ runs[1].first = "fb" /\ runs[2].first = "tt"
  /\ DOMAIN MappingOf(runs[1].fb) # {}
  /\ DOMAIN MappingOf(runs[1].tt) # {}
  /\ Len(Table(1)) > 0

\* ------------------------------------------------------------------------
\* C20: concurrent requests share no mutable state: in every interleaving of
\* two handler runs, the response of each run is the one the handler gives
\* for that run's own range and its own adapter outcomes (what it would
\* return running alone), whatever the other run has fetched or computed
\* before, meanwhile or after.
C20_RunsIsolated ==
  \A r \in Runs :
    Answered(r) =>
      runs[r].response =
        HandlerResult(tz, runs[r].start, runs[r].end, runs[r].fb, runs[r].tt)

\* both runs answered, the second after the first, with different outcomes
\* and different tables
C20_Witness ==
  /\ Answered(1) /\ Answered(2)
  /\ runs[1].fb # runs[2].fb
  /\ runs[1].tt # runs[2].tt
  /\ Table(1) # Table(2)

\* ------------------------------------------------------------------------
\* C21: in a single adapter call at most one upstream reporting request is
\* issued, and that request asks for the whole range from start to end: never
\* a request per day, never a second request or a further page, however many
\* rows the upstream returns.
C21_OneRangeRequest ==
  /\ ad.requests <= 1
  /\ Len(ad.sent) = ad.requests
  /\ \A i \in 1..Len(ad.sent) : ad.sent[i] = [since |-> ad.start, until |-> ad.end]
  /\ (ad.pc \in {"fetching", "settled"} /\ ad.token /\ ad.account) => ad.requests = 1

\* a call over 90 days has settled on a response with as many rows as the
\* upstream may return
C21_Witness ==
  /\ ad.pc = "settled"
  /\ ad.end - ad.start = 89
  /\ ad.requests = 1
  /\ ad.resp.kind = "ok" /\ Len(ad.resp.rows) = MaxRows

\* ------------------------------------------------------------------------
\* C22: when getDateArray is called with a start later than the end, it
\* returns the empty sequence and raises no error.
C22_EmptyWhenReversed ==
  (ga.pc = "done" /\ ga.start > ga.end) => ga.out = << >>

\* getDateArray has returned from a call whose start is two days after its
\* end, in a zone with daylight saving
C22_Witness ==
  /\ ga.pc = "done"
  /\ ga.start = ga.end + 2
  /\ tz.name = "London"

\* ------------------------------------------------------------------------
\* C25: in every run the range ends at today's date in UTC and starts exactly
\* (lookback - 1) calendar days before that end date, in every time zone of
\* the process and at every time of day at which the request arrives.
C25_RangeOfRun ==
  \A r \in Runs :
    Accepted(r) =>
      /\ runs[r].end = formatDate(runs[r].now)
      /\ runs[r].start = runs[r].end - (runs[r].daysToFetch - 1)

\* ------------------------------------------------------------------------
\* C26: client and server derivations agree: for every table the handler
\* emits, processApiData applied to the parsed body computes, record by
\* record, the same ten derived values the server put in the record, so
\* re-deriving on the client changes no derived field.
C26_ClientAgreesWithServer ==
  (client.pc = "loaded" /\ ~client.error) =>
     \E r \in Runs :
       /\ Answered(r)
       /\ Len(client.tableData) = Len(Table(r))
       /\ \A i \in 1..Len(Table(r)) :
            \A f \in FbDerived \cup TtDerived :
              client.tableData[i][f] = Table(r)[i][f]

\* ------------------------------------------------------------------------
\* Identifiers a placeholder may carry
ChatIds == 1..(2 * MaxSubmits + 1)

\* the request of the send with this placeholder id has settled
Arrived(id) ==
  \E i \in 1..Len(chat.reqs) : chat.reqs[i].id = id /\ chat.reqs[i].pc = "arrived"

\* the placeholder of the send is replaced: one AI message carries the id, it
\* is not loading, and nothing is awaited any more
Replaced(id) ==
  /\ Cardinality({ m \in 1..Len(chat.messages) :
                     chat.messages[m].id = id /\ chat.messages[m].sender = "ai" }) = 1
  /\ \A m \in 1..Len(chat.messages) : ~chat.messages[m].isLoading
  /\ ~chat.isLoadingAiResponse

\* a step that ends a send keeps every other message and puts a non-loading
\* AI message with the same id in the place of the placeholder
SettleInPlace ==
  \A id \in ChatIds :
    (Arrived(id) /\ ~Arrived(id)') =>
       /\ Len(chat.messages') = Len(chat.messages)
       /\ \A m \in 1..Len(chat.messages) :
            IF chat.messages[m].id = id /\ chat.messages[m].isLoading
            THEN /\ chat.messages'[m].id = id
                 /\ chat.messages'[m].sender = "ai"
                 /\ ~chat.messages'[m].isLoading
            ELSE chat.messages'[m] = chat.messages[m]
       /\ Replaced(id)'

\* C28: every chat send that passed the guard finishes: once its request has
\* settled (a reply, an error status, a thrown failure), the loading
\* placeholder with the send's id is eventually replaced, in place, by exactly
\* one non-loading AI message, and isLoadingAiResponse is false again; no
\* placeholder stays loading after its request has settled.
C28_SendFinishes ==
  /\ \A id \in ChatIds : Arrived(id) ~> Replaced(id)
  /\ [][SettleInPlace]_vars

\* a send whose request failed at the network has been finished with the
\* apology message
C28_Witness ==
  /\ chat.pc = "mounted"
  /\ chat.reqs = << >>
  /\ ~chat.isLoadingAiResponse
  /\ chat.error = "Failed to fetch"
  /\ \E m \in 1..Len(chat.messages) : chat.messages[m].error

\* ------------------------------------------------------------------------
\* C23: the conversation history forwarded to the chat service holds prior
\* turns only, never a loading placeholder: no message with isLoading set is
\* in the history the component sends with a query, nor in the history the
\* ask-gemini handler passes to the model.
C23_NoLoadingInHistory ==
  /\ \A i \in 1..Len(chat.reqs) :
       \A m \in 1..Len(chat.reqs[i].body.history.msgs) :
         ~chat.reqs[i].body.history.msgs[m].isLoading
  /\ \A m \in 1..Len(ask.passed) : ~ask.passed[m].isLoading

\* the handler is calling the chat service for a request whose history held
\* a loading placeholder next to a real turn
C23_Witness ==
  /\ ask.pc = "calling"
  /\ \E m \in 1..Len(ask.req.body.history.msgs) : ask.req.body.history.msgs[m].isLoading
  /\ Len(ask.passed) > 0

\* ------------------------------------------------------------------------
\* the response the component holds for the send with this placeholder id
ResponseFor(id) ==
  (CHOOSE i \in 1..Len(chat.reqs) : chat.reqs[i].id = id /\ chat.reqs[i].pc = "arrived")

\* the handler's response reaches the component as it is, and a reply that
\* the component reads becomes the text of the message that had the send's id
ReplyDelivered ==
  /\ (ask.pc = "answered" /\ ask.from = "component" /\ ask'.pc = "idle") =>
        \E i \in 1..Len(chat'.reqs) :
          /\ chat'.reqs[i].id = ask.reqId
          /\ chat'.reqs[i].pc = "arrived"
          /\ chat'.reqs[i].response.statusCode = ask.response.statusCode
          /\ chat'.reqs[i].response.body = ask.response
  /\ \A id \in ChatIds :
       (/\ Arrived(id) /\ ~Arrived(id)'
        /\ chat.reqs[ResponseFor(id)].response.kind = "http"
        /\ chat.reqs[ResponseFor(id)].response.statusCode = 200) =>
          \E m \in 1..Len(chat.messages) :
            /\ chat.messages[m].id = id /\ chat.messages[m].isLoading
            /\ chat'.messages[m].id = id
            /\ chat'.messages[m].sender = "ai"
            /\ ~chat'.messages[m].isLoading
            /\ chat'.messages[m].text = chat.reqs[ResponseFor(id)].response.body.text

\* C24: when the chat service returns a text reply, the ask-gemini handler
\* answers 200 with exactly that text as the reply, and the component
\* replaces the loading placeholder by a message whose text is exactly that
\* reply.
C24_ReplyVerbatim ==
  /\ [](ask.result.k = "text" =>
          /\ ask.pc = "answered"
          /\ ask.response.statusCode = 200
          /\ ask.response.kind = "reply"
          /\ ask.response.text = ask.result.text)
  /\ [][ReplyDelivered]_vars

\* the component shows the reply of the chat service, and in an earlier send
\* it showed an empty reply
C24_Witness ==
  /\ chat.reqs = << >>
  /\ \E m \in 1..Len(chat.messages) :
       /\ chat.messages[m].sender = "ai"
       /\ chat.messages[m].text = "Move budget towards the lower CPA."
  /\ \E m \in 1..Len(chat.messages) :
       /\ chat.messages[m].sender = "ai"
       /\ chat.messages[m].text = ""

\* ------------------------------------------------------------------------
LoadingMessages == { m \in 1..Len(chat.messages) : chat.messages[m].isLoading }

\* the sends whose fetch is awaited: on the way, in the handler, or settled and
\* not yet taken up by sendMessage
InFlight ==
  { i \in 1..Len(chat.reqs) : chat.reqs[i].pc \in {"sent", "handling", "arrived"} }

\* a submit with a blank input, or while a response is awaited, changes nothing
\* of the component but the count of submits
BlockedSubmitIsNoOp ==
  (/\ chat'.submits # chat.submits
   /\ (Trim(chat.input) = "" \/ chat.isLoadingAiResponse)) =>
      /\ chat'.messages = chat.messages
      /\ chat'.input = chat.input
      /\ chat'.isLoadingAiResponse = chat.isLoadingAiResponse
      /\ chat'.error = chat.error
      /\ chat'.reqs = chat.reqs
      /\ ask' = ask

\* C27: sendMessage does nothing when the input is blank or a response is
\* awaited, so after any sequence of submits at most one chat request is in
\* flight and at most one message of the list is loading.
C27_OneInFlight ==
  /\ [](/\ Cardinality(InFlight) <= 1
        /\ Cardinality(LoadingMessages) <= 1
        /\ Len(chat.reqs) = Cardinality(InFlight))
  /\ [][BlockedSubmitIsNoOp]_vars

\* two submits were made, one of them did nothing; one request is in flight,
\* one placeholder is loading and a question is typed in the input box
C27_Witness ==
  /\ chat.submits = 2
  /\ chat.isLoadingAiResponse
  /\ Trim(chat.input) # ""
  /\ Cardinality(InFlight) = 1
  /\ Cardinality(LoadingMessages) = 1
  /\ Len(chat.messages) = 3

\* ------------------------------------------------------------------------
\* The status the stated order of checks gives a request, 0 when all five
\* checks pass
StatedStatus(req, apiKey) ==
  IF req.method # "POST" THEN 405
  ELSE IF ~apiKey THEN 500
  ELSE IF req.body.kind = "unparsable" THEN 400
  ELSE IF \/ req.body.kind = "absent"
          \/ req.body.userQuery.k # "string"
          \/ Trim(req.body.userQuery.s) = "" THEN 400
  ELSE IF req.body.marketingData.k # "array" THEN 400
  ELSE 0

\* C29: the ask-gemini handler validates in a fixed order and never contacts
\* the chat service for an invalid request: a method other than POST gives
\* 405; else a missing GEMINI_API_KEY gives 500; else an unparsable body gives
\* 400; else a missing, non-string or blank userQuery gives 400; else a
\* marketingData that is not an array gives 400; the chat service is called
\* only when all five checks pass.
C29_ValidationOrder ==
  ask.pc \in {"calling", "answered"} =>
    /\ StatedStatus(ask.req, ask.apiKey) # 0 =>
         /\ ask.pc = "answered"
         /\ ask.calls = 0
         /\ ask.response.statusCode = StatedStatus(ask.req, ask.apiKey)
    /\ ask.calls > 0 => StatedStatus(ask.req, ask.apiKey) = 0
=============================================================================
